---- MODULE Spec2Model ----
(***************************************************************************)
(* A model of build/build-sample-reports.js: the sample-report             *)
(* orchestrator, the PSI single-category trim (tweakLhrForPsi), the        *)
(* synthetic error-path builder (generateErrorLHR), the lab-data bundle    *)
(* (prepareLabData) and the final-screenshot extraction.                   *)
(*                                                                         *)
(* JavaScript objects live in a heap (a sequence of Result values; an      *)
(* address is an index), so that copying and aliasing are visible.  A JS   *)
(* object used as a map is a function over a fixed universe of keys whose  *)
(* value is Absent for a key the object does not have.                     *)
(***************************************************************************)
EXTENDS Integers, Sequences, FiniteSets, TLC

VARIABLES
  heap,        \* the JS heap: heap[a] is the Result object at address a
  calls,       \* the calls made so far to tweakLhrForPsi / prepareLabData
  shot,        \* the call of _getFinalScreenshot: its argument and outcome
  env,         \* the orchestrator's inputs: sample_v2.json, the executor's outcome
  pc,          \* where the orchestrator is
  run,         \* which run of the orchestrator this is
  files,       \* the file system: files[path] is the content of the file
  dirs,        \* the file system: the directories that exist
  log,         \* console.log: the file paths reported written, in order
  errorLhr,    \* the address generateErrorLHR returned, 0 before
  filenameToLhr, \* the entries of filenameToLhr, in declaration order
  idx,         \* how many (name, variant) pairs the write loop has done
  failedIn,    \* the call that threw, "" while nothing has
  firstRun     \* the file system as the first completed run left it

orchVars == <<env, pc, run, files, dirs, log, errorLhr, filenameToLhr, idx,
              failedIn, firstRun>>
vars == <<heap, calls, shot, orchVars>>

----------------------------------------------------------------------------
(* Bounds of the model. *)

MaxRefs == 2      \* longest performance auditRefs list of an input Result
MaxCalls == 2     \* calls made in one behaviour of SpecLhr
MaxShotRefs == 2  \* longest auditRefs list given to _getFinalScreenshot

----------------------------------------------------------------------------
(* JavaScript values. *)

Undefined == [js |-> "undefined"]
Null == [js |-> "null"]
Absent == [js |-> "absent"]      \* the object has no such own property
Str(s) == [js |-> "string", value |-> s]
Num(n) == [js |-> "number", value |-> n]   \* scores are in hundredths

\* obj[k] as JavaScript reads it: a missing property reads as undefined.
Get(obj, k) == IF obj[k] = Absent THEN Undefined ELSE obj[k]

\* Object.keys(obj)
Keys(obj) == {k \in DOMAIN obj : obj[k] # Absent}

\* JavaScript truthiness of the values the model uses.
Truthy(v) == v \notin {Undefined, Null, Absent}

\* String.prototype.endsWith
EndsWith(s, suffix) ==
  /\ Len(s) >= Len(suffix)
  /\ SubSeq(s, Len(s) - Len(suffix) + 1, Len(s)) = suffix

\* String.prototype.includes
Includes(s, part) ==
  \E i \in 1..(Len(s) - Len(part) + 1) : SubSeq(s, i, i + Len(part) - 1) = part

----------------------------------------------------------------------------
(* The Result document (LH.Result), as far as the program reads it. *)

CategoryKeys == {"performance", "seo", "lighthouse-plugin-someplugin"}

AuditKeys == {"performance-budget", "timing-budget", "first-contentful-paint",
              "final-screenshot", "full-page-screenshot", "script-treemap-data",
              "font-display", "offscreen-images", "apple-touch-icon"}

GroupKeys == {"metrics", "budgets"}

AuditRef(id) == [id |-> id, weight |-> 1]

Category(id, refs) ==
  [id |-> id, title |-> id, score |-> Num(100), auditRefs |-> refs]

Audit(score, mode, details) ==
  [score |-> score, scoreDisplayMode |-> mode, warnings |-> <<>>,
   errorMessage |-> Undefined, details |-> details]

ErrorAudit ==
  [score |-> Null, scoreDisplayMode |-> "error", warnings |-> <<>>,
   errorMessage |-> Str("Required traces gatherer did not run."),
   details |-> Undefined]

NoCategories == [k \in CategoryKeys |-> Absent]
NoAudits == [k \in AuditKeys |-> Absent]
NoGroups == [k \in GroupKeys |-> Absent]

Group(title) == [title |-> title, description |-> title]

DefaultGroups ==
  [k \in GroupKeys |-> IF k = "metrics" THEN Group("Metrics") ELSE Group("Budgets")]

Result(locale, categories, audits, groups) ==
  [locale |-> locale, categories |-> categories, audits |-> audits,
   categoryGroups |-> groups]

----------------------------------------------------------------------------
(* JSON.parse(JSON.stringify(v)): a property whose value is undefined is   *)
(* not serialized, so the copy does not have it.                           *)

JSONMap(obj) == [k \in DOMAIN obj |-> IF obj[k] = Undefined THEN Absent ELSE obj[k]]

JSONRoundTrip(r) ==
  [locale |-> r.locale,
   categories |-> JSONMap(r.categories),
   audits |-> JSONMap(r.audits),
   categoryGroups |->
     IF r.categoryGroups = Undefined THEN Undefined ELSE JSONMap(r.categoryGroups)]

JSONStringify(r) == Str(JSONRoundTrip(r))

\* JSON.parse(s): a new object on the heap.
JSONParse(h, s) == [heap |-> Append(h, s.value), ref |-> Len(h) + 1]

\* A mutant of JSONClone: no copy is made, the "clone" is the input object.
JSONCloneAlias(h, a) == [heap |-> h, ref |-> a]

\* const clone = JSON.parse(JSON.stringify(lhr))
JSONClone(h, a) == JSONParse(h, JSONStringify(h[a]))

----------------------------------------------------------------------------
(* tweakLhrForPsi: drops the LHR to the performance category alone and     *)
(* removes budgets.  The outcome is the heap after the call, whether the   *)
(* call threw, and the address returned.                                   *)

\* A mutant of the auditRefs filter: only the first budget reference goes.
IsBudgetRefOnlyFirst(refs, i) ==
  /\ EndsWith(refs[i].id, "-budget")
  /\ \A j \in 1..(i - 1) : ~EndsWith(refs[j].id, "-budget")

\* audit => !audit.id.endsWith('-budget'), negated: the references dropped.
IsBudgetRef(refs, i) == EndsWith(refs[i].id, "-budget")

\* Array.prototype.filter with the callback of tweakLhrForPsi.
FilterBudgets(refs) ==
  LET F[i \in 0..Len(refs)] ==
        IF i = 0 THEN <<>>
        ELSE IF IsBudgetRef(refs, i) THEN F[i - 1] ELSE Append(F[i - 1], refs[i])
  IN F[Len(refs)]

\* A mutant of SoloCategories: the other categories are kept.
SoloCategoriesKeepAll(categories) ==
  [categories EXCEPT !["performance"] = Get(categories, "performance")]

\* clone.categories = {'performance': clone.categories.performance}
SoloCategories(categories) ==
  [k \in CategoryKeys |->
     IF k = "performance" THEN Get(categories, "performance") ELSE Absent]

tweakLhrForPsi(h, a) ==
  LET c == JSONClone(h, a)
      h1 == [c.heap EXCEPT ![c.ref].categories = SoloCategories(@)]
      h2 == [h1 EXCEPT ![c.ref].audits["performance-budget"] = Absent]
      perf == h2[c.ref].categories["performance"]
      h3 == [h2 EXCEPT ![c.ref].categories["performance"].auditRefs =
                          FilterBudgets(@)]
  IN IF perf = Undefined
       THEN \* TypeError: cannot read property 'auditRefs' of undefined
            [heap |-> h2, threw |-> TRUE, ref |-> 0]
       ELSE [heap |-> h3, threw |-> FALSE, ref |-> c.ref]

----------------------------------------------------------------------------
(* _getFinalScreenshot(perfCategory): the data URI of the final            *)
(* screenshot, or null.                                                    *)

\* Array.prototype.find(audit => audit.id === 'final-screenshot')
FindFinalScreenshot(refs) ==
  LET hits == {i \in DOMAIN refs : refs[i].id = "final-screenshot"}
  IN IF hits = {} THEN Undefined
     ELSE refs[CHOOSE i \in hits : \A j \in hits : i <= j]

\* A mutant of ResultUsable: a result in error is used all the same.
ResultUsableIgnoringError(auditRef) ==
  Truthy(auditRef) /\ Truthy(auditRef.result)

\* !(!auditRef || !auditRef.result || auditRef.result.scoreDisplayMode === 'error')
ResultUsable(auditRef) ==
  /\ Truthy(auditRef)
  /\ Truthy(auditRef.result)
  /\ auditRef.result.scoreDisplayMode # "error"

_getFinalScreenshot(perfCategory) ==
  LET auditRef == FindFinalScreenshot(perfCategory.auditRefs)
  IN IF ~ResultUsable(auditRef) THEN Null
     ELSE LET details == auditRef.result.details
          IN IF ~Truthy(details) \/ details.type # "screenshot" THEN Null
             ELSE details.data

----------------------------------------------------------------------------
(* prepareLabData(LHResult, document): the lab-data bundle.                *)

labDataTitle == "Lab Data"
lsPerformanceCategoryDescription == "Lighthouse analysis of the current page"

\* Util.prepareReportResult: an independent copy of the Result in which
\* every audit reference carries the audit it names as its result.
prepareReportResult(h, a) ==
  LET c == JSONParse(h, JSONStringify(h[a]))
      r == c.heap[c.ref]
      WithResult(ref) ==
        [id |-> ref.id, weight |-> ref.weight, result |-> Get(r.audits, ref.id)]
      Resolve(cat) ==
        IF cat = Absent THEN Absent
        ELSE [cat EXCEPT !.auditRefs =
                [i \in DOMAIN cat.auditRefs |-> WithResult(cat.auditRefs[i])]]
  IN [heap |-> [c.heap EXCEPT ![c.ref].categories =
                  [k \in CategoryKeys |-> Resolve(r.categories[k])]],
      ref |-> c.ref]

\* PerformanceCategoryRenderer.render(category, groups, 'PSI')
RenderCategory(category, groups, environment) ==
  [el |-> "lh-category", category |-> category, groups |-> groups,
   environment |-> environment]

NoBundle == Undefined

\* The audit's details when they are a full-page screenshot, else undefined.
FullPageScreenshotOf(audits) ==
  LET au == Get(audits, "full-page-screenshot")
  IN IF Truthy(au) /\ Truthy(au.details) /\ au.details.type = "full-page-screenshot"
       THEN au.details
       ELSE Undefined

\* A mutant of LabDataError: a Result without a full-page screenshot is
\* refused as well.
LabDataErrorNeedsScreenshot(reportLHR) ==
  IF ~Truthy(Get(reportLHR.categories, "performance"))
    THEN "No performance category. Can't make lab data section"
  ELSE IF ~Truthy(reportLHR.categoryGroups)
    THEN "No category groups found."
  ELSE IF ~Truthy(Get(reportLHR.categoryGroups, "metrics"))
    THEN "TypeError"
  ELSE IF ~Truthy(Get(reportLHR.audits, "full-page-screenshot"))
    THEN "No full page screenshot."
  ELSE ""

\* Lines 233-239: the error prepareLabData throws for the prepared Result,
\* "" when it throws none.  A categoryGroups without a `metrics` group makes
\* the assignment of line 238 a TypeError.
LabDataError(reportLHR) ==
  IF ~Truthy(Get(reportLHR.categories, "performance"))
    THEN "No performance category. Can't make lab data section"
  ELSE IF ~Truthy(reportLHR.categoryGroups)
    THEN "No category groups found."
  ELSE IF ~Truthy(Get(reportLHR.categoryGroups, "metrics"))
    THEN "TypeError"
  ELSE ""

\* LHResult is an address, or the string JSON.stringify gave for a Result.
\* The bundle holds, besides what is returned, what installFeatures closes
\* over: fullPageScreenshot, lhResult, and reportUIFeatures.json.
prepareLabData(h, LHResult, isString) ==
  LET parsed == IF isString THEN JSONParse(h, LHResult)
                ELSE [heap |-> h, ref |-> LHResult]
      lhResult == parsed.ref
      prep == prepareReportResult(parsed.heap, lhResult)
      reportLHR == prep.heap[prep.ref]
      perfCategory == Get(reportLHR.categories, "performance")
      error == LabDataError(reportLHR)
      metrics == [title |-> labDataTitle,
                  description |-> lsPerformanceCategoryDescription]
      h1 == [prep.heap EXCEPT ![prep.ref].categoryGroups["metrics"] = metrics]
      fullPageScreenshot == FullPageScreenshotOf(reportLHR.audits)
  IN IF error # ""
       THEN [heap |-> prep.heap, threw |-> TRUE, error |-> error,
             lhResult |-> lhResult, report |-> prep.ref, bundle |-> NoBundle]
       ELSE [heap |-> h1, threw |-> FALSE, error |-> "", lhResult |-> lhResult,
             report |-> prep.ref,
             bundle |->
               [perfCategoryEl |->
                  RenderCategory(perfCategory, h1[prep.ref].categoryGroups, "PSI"),
                finalScreenshotDataUri |-> _getFinalScreenshot(perfCategory),
                fullPageScreenshot |-> fullPageScreenshot,
                lhResult |-> lhResult,
                reportLHR |-> prep.ref,
                json |-> lhResult]]

----------------------------------------------------------------------------
(* installFeatures(reportEl): the routine prepareLabData returns, as the   *)
(* sequence of its effects on the host page and whether it threw.          *)

\* The container given to installFeatures, and the host page's document.
ReportEl(hasMetrics) == [el |-> "reportEl", hasMetrics |-> hasMetrics]
Document(hasContainer) == [el |-> "document", hasContainer |-> hasContainer]

\* document.createElement('div'): an element no earlier call made.
CreateElement(n) == [el |-> "div", created |-> n]

\* ElementScreenshotRenderer.installFullPageScreenshot(el, screenshot)
InstallFullPageScreenshot(el, screenshot) ==
  [effect |-> "installFullPageScreenshot", el |-> el, screenshot |-> screenshot]

\* el.querySelector(selector)
QuerySelector(el, selector) ==
  [effect |-> "querySelector", el |-> el, selector |-> selector]

\* screenshotsContainer.append(screenshotEl)
AppendTo(selector, el) == [effect |-> "append", parent |-> selector, el |-> el]

\* ElementScreenshotRenderer.installOverlayFeature({...})
InstallOverlayFeature(reportEl, overlayContainerEl, fullPageScreenshot) ==
  [effect |-> "installOverlayFeature", reportEl |-> reportEl,
   overlayContainerEl |-> overlayContainerEl,
   fullPageScreenshot |-> fullPageScreenshot]

\* reportUIFeatures.addButton({container, text, icon, onClick}); onClick is
\* the address ReportUIFeatures.openTreemap is called with.
AddButton(selector, onClick) ==
  [effect |-> "addButton", container |-> selector, icon |-> "treemap",
   onClick |-> onClick]

\* A mutant of ContainerMissing: the overlay container is required even when
\* no full-page screenshot was captured.
ContainerMissingAlways(fullPageScreenshot, document) == ~document.hasContainer

\* Lines 269 and 278-281: the throw for a missing overlay container.
ContainerMissing(fullPageScreenshot, document) ==
  Truthy(fullPageScreenshot) /\ ~document.hasContainer

\* A mutant of OverlaySteps: the overlay element gets no screenshot of its own.
OverlayStepsOneInstall(reportEl, screenshotEl, fullPageScreenshot) ==
  <<AppendTo(".element-screenshots-container", screenshotEl),
    InstallOverlayFeature(reportEl, screenshotEl, fullPageScreenshot)>>

\* Lines 283-293: the overlay element appended, the overlay feature
\* installed, the screenshot installed on the overlay element.
OverlaySteps(reportEl, screenshotEl, fullPageScreenshot) ==
  <<AppendTo(".element-screenshots-container", screenshotEl),
    InstallOverlayFeature(reportEl, screenshotEl, fullPageScreenshot),
    InstallFullPageScreenshot(screenshotEl, fullPageScreenshot.screenshot)>>

\* Lines 296-297: showTreemapApp, read from the Result given to prepareLabData.
ShowTreemapApp(audits) ==
  LET au == Get(audits, "script-treemap-data")
  IN Truthy(au) /\ Truthy(au.details)

\* A mutant of OpenTreemapArg: the view is opened over the prepared copy.
OpenTreemapArgPrepared(bundle) == bundle.reportLHR

\* Line 304: onClick: () => ReportUIFeatures.openTreemap(lhResult)
OpenTreemapArg(bundle) == bundle.lhResult

\* n numbers the element this call creates.
installFeatures(h, bundle, reportEl, document, n) ==
  LET fullPageScreenshot == bundle.fullPageScreenshot
      first ==
        IF Truthy(fullPageScreenshot)
          THEN <<InstallFullPageScreenshot(reportEl, fullPageScreenshot.screenshot),
                 QuerySelector(document, ".element-screenshots-container")>>
          ELSE <<>>
      overlay ==
        IF Truthy(fullPageScreenshot)
          THEN OverlaySteps(reportEl, CreateElement(n), fullPageScreenshot)
          ELSE <<>>
      button ==
        <<QuerySelector(reportEl, ".lh-audit-group--metrics")>> \o
        (IF ShowTreemapApp(h[bundle.lhResult].audits) /\ reportEl.hasMetrics
           THEN <<AddButton(".lh-audit-group--metrics", OpenTreemapArg(bundle))>>
           ELSE <<>>)
  IN IF ContainerMissing(fullPageScreenshot, document)
       THEN [effects |-> first, threw |-> TRUE,
             error |-> "missing .element-screenshots-container"]
       ELSE [effects |-> first \o overlay \o button, threw |-> FALSE, error |-> ""]

----------------------------------------------------------------------------
(* The Results and categories the model runs the program on. *)

ScreenshotDetails(data) == [type |-> "screenshot", data |-> Str(data)]
FullPageDetails == [type |-> "full-page-screenshot", screenshot |-> Str("fpss")]
TreemapDetails == [type |-> "treemap-data"]
DebugDetails == [type |-> "debugdata"]

SeqsUpTo(S, n) == UNION {[1..m -> S] : m \in 0..n}

RefIds == {"first-contentful-paint", "performance-budget", "timing-budget",
           "final-screenshot"}

RefsOf(ids) == [i \in DOMAIN ids |-> AuditRef(ids[i])]

BaseAudits ==
  [NoAudits EXCEPT
     !["first-contentful-paint"] = Audit(Num(100), "numeric", Undefined),
     !["timing-budget"] = Audit(Null, "informative", DebugDetails),
     !["final-screenshot"] = Audit(Null, "informative", ScreenshotDetails("abc"))]

SeoCategory == Category("seo", RefsOf(<<"first-contentful-paint">>))

\* Results that vary in what the trim edits.
TrimInputs ==
  LET perfs == {Absent, Undefined} \cup
               {Category("performance", RefsOf(ids)) : ids \in SeqsUpTo(RefIds, MaxRefs)}
  IN {Result("en-US",
             [NoCategories EXCEPT !["performance"] = perf, !["seo"] = seo],
             [BaseAudits EXCEPT !["performance-budget"] = budget],
             DefaultGroups) :
        perf \in perfs,
        seo \in {Absent, SeoCategory},
        budget \in {Absent, Audit(Null, "notApplicable", Undefined)}}

\* Results that vary in what the lab-data bundle reads.
LabInputs ==
  LET perfs == {Absent,
                Category("performance", RefsOf(<<"first-contentful-paint">>)),
                Category("performance",
                         RefsOf(<<"first-contentful-paint", "final-screenshot">>))}
      fpss == {Absent, Audit(Null, "informative", FullPageDetails),
               Audit(Null, "informative", Undefined)}
      treemaps == {Absent, Audit(Null, "informative", TreemapDetails),
                   Audit(Null, "informative", Undefined)}
      finals == {Absent, ErrorAudit,
                 Audit(Null, "informative", ScreenshotDetails("abc"))}
      groups == {Undefined, DefaultGroups, [DefaultGroups EXCEPT !["metrics"] = Absent]}
  IN {Result("en-US",
             [NoCategories EXCEPT !["performance"] = perf],
             [BaseAudits EXCEPT !["full-page-screenshot"] = fps,
                                !["script-treemap-data"] = tm,
                                !["final-screenshot"] = fin],
             g) :
        perf \in perfs, fps \in fpss, tm \in treemaps, fin \in finals, g \in groups}

InputResults == TrimInputs \cup LabInputs

\* Audit references as prepareReportResult leaves them, for _getFinalScreenshot.
ShotRefs ==
  {[id |-> id, weight |-> 1, result |-> res] :
     id \in {"final-screenshot", "first-contentful-paint"},
     res \in {Undefined,
              [ErrorAudit EXCEPT !.details = ScreenshotDetails("err")],
              Audit(Num(100), "binary", ScreenshotDetails("abc")),
              Audit(Num(100), "binary", Undefined),
              Audit(Num(100), "binary", DebugDetails),
              Audit(Null, "informative", ScreenshotDetails("xyz"))}}

ShotInputs == {Category("performance", refs) : refs \in SeqsUpTo(ShotRefs, MaxShotRefs)}

NoShot == [arg |-> Category("performance", <<>>), done |-> FALSE, ret |-> Null]

----------------------------------------------------------------------------
(* The file system.  A path is the sequence of its segments.               *)

DIST == <<"dist/now">>
TMP == DIST \o <<".tmp">>

Dirname(path) == SubSeq(path, 1, Len(path) - 1)

IsUnder(path, dir) == Len(path) >= Len(dir) /\ SubSeq(path, 1, Len(dir)) = dir

\* fs.mkdirSync(dir, {recursive: true}): the directory and its ancestors.
mkdirSync(ds, dir) == ds \cup {SubSeq(dir, 1, n) : n \in 1..Len(dir)}

\* fs.writeFileSync(path, content): creates the file or overwrites it.
writeFileSync(fs, path, content) ==
  [p \in DOMAIN fs \cup {path} |-> IF p = path THEN content ELSE fs[p]]

\* A mutant of rmTree: only the directory entry goes, what is under it stays.
rmTreeNotRecursive(paths, dir) == paths \ {dir}

\* The paths left when a directory goes with everything under it.
rmTree(paths, dir) == {p \in paths : ~IsUnder(p, dir)}

\* fs.rmdirSync(dir, {recursive: true}), on the directories and on the files.
rmdirSyncDirs(ds, dir) == rmTree(ds, dir)
rmdirSyncFiles(fs, dir) == [p \in rmTree(DOMAIN fs, dir) |-> fs[p]]

NoFiles == [p \in {} |-> Undefined]

OrchIdle ==
  /\ env = Undefined
  /\ pc = "idle"
  /\ run = 0
  /\ files = NoFiles
  /\ dirs = {}
  /\ log = <<>>
  /\ errorLhr = 0
  /\ filenameToLhr = <<>>
  /\ idx = 0
  /\ failedIn = ""
  /\ firstRun = Undefined

----------------------------------------------------------------------------
(* The orchestrator's collaborators and helpers.                           *)

lhr == 1     \* the address of the module-level lhr (sample_v2.json)

\* The names of filenameToLhr in declaration order, and the variants of the
\* write loop.  "@" stands for U+0251 and "^" for U+2323.
Filenames == <<"english", "espanol", "@rabic", "xl-accented", "error",
               "single-category">>
Variants == <<"", "^.cdt.", "^.psi.">>

\* swapLocale(lhr, locale).lhr: a translated deep copy.
swapLocale(h, a, locale) ==
  LET c == JSONParse(h, JSONStringify(h[a]))
  IN [heap |-> [c.heap EXCEPT ![c.ref].locale = locale], ref |-> c.ref]

\* ReportGenerator.generateReportHtml(lhr)
generateReportHtml(r) ==
  [template |-> "report", rootClass |-> "lh-root lh-vars", json |-> JSONStringify(r)]

\* html.replace(`"lh-root lh-vars"`, `"lh-root lh-vars lh-devtools"`)
ReplaceRootClass(html) ==
  IF html.rootClass = "lh-root lh-vars"
    THEN [html EXCEPT !.rootClass = "lh-root lh-vars lh-devtools"]
    ELSE html

\* ReportGenerator.sanitizeJson(lhr)
sanitizeJson(r) == JSONStringify(r)

addPluginCategory(h, a) ==
  [h EXCEPT ![a].categories["lighthouse-plugin-someplugin"] =
     [id |-> "lighthouse-plugin-someplugin", title |-> "Plugin",
      score |-> Num(50), auditRefs |-> <<>>]]

\* generatePsiReportHtml(): the faux-PSI page around the trimmed module-level lhr.
generatePsiReportHtml(h) ==
  LET t == tweakLhrForPsi(h, lhr)
  IN [heap |-> t.heap, threw |-> t.threw,
      html |-> IF t.threw THEN Undefined
               ELSE [template |-> "faux-psi", rootClass |-> "lh-root lh-vars",
                     json |-> sanitizeJson(t.heap[t.ref])]]

\* A mutant of Filepath: the variant's prefix is left out of the path.
FilepathWithoutVariant(variant, filename) == DIST \o <<filename, "index.html">>

\* `${DIST}/${variant}${filename}/index.html`
Filepath(variant, filename) == DIST \o <<variant \o filename, "index.html">>

\* The artifacts generateErrorLHR saves for the audit-only run.
artifactsJson ==
  [fetchTime |-> "2019-06-26T23:56:58.381Z", requestedUrl |-> "http://fakeurl.com",
   PageLoadError |-> Null]

fontDisplayWarnings ==
  <<"Lighthouse was unable to automatically check the font-display value for the following URL: IBMPlexSans-Light-Latin1.woff.",
    "Lighthouse was unable to automatically check the font-display value for the following URL: IBMPlexSans-Bold-Latin1.woff.">>

\* A variant that sets the warning, the mode and the score but leaves the
\* audit's error message in place.
PassWithWarningKeepsError(audit, warning) ==
  [audit EXCEPT !.warnings = <<warning>>,
                !.scoreDisplayMode = "binary", !.score = Num(100)]

\* offscreen-images / apple-touch-icon: set as passing but with a warning.
PassWithWarning(audit, warning) ==
  [audit EXCEPT !.warnings = <<warning>>, !.errorMessage = Undefined,
                !.scoreDisplayMode = "binary", !.score = Num(100)]

\* Lines 149-169 of generateErrorLHR: the audits of errorLhr overwritten.
AddAuditWarnings(h, a) ==
  [h EXCEPT
     ![a].audits["font-display"].warnings = fontDisplayWarnings,
     ![a].audits["offscreen-images"] =
        PassWithWarning(@, "Invalid image sizing information: vr_new_asset.png"),
     ![a].audits["apple-touch-icon"] =
        PassWithWarning(@, "apple-touch-icon-precomposed is out of date; apple-touch-icon is preferred.")]

----------------------------------------------------------------------------
(* SpecLhr: calls of tweakLhrForPsi and prepareLabData on input Results    *)
(* and on the Results earlier calls returned.                              *)

InitLhr ==
  /\ \E r \in InputResults : heap = <<r>>
  /\ calls = <<>>
  /\ shot = NoShot
  /\ OrchIdle

\* The Results a caller holds: the input and what tweakLhrForPsi returned.
Roots ==
  {1} \cup {calls[i].ret : i \in {j \in DOMAIN calls :
                              calls[j].fn = "tweakLhrForPsi" /\ ~calls[j].threw}}

CallTweakLhrForPsi ==
  /\ Len(calls) < MaxCalls
  /\ \E a \in Roots :
       LET t == tweakLhrForPsi(heap, a)
       IN /\ heap' = t.heap
          /\ calls' = Append(calls,
               [fn |-> "tweakLhrForPsi", arg |-> a, isString |-> FALSE,
                threw |-> t.threw, error |-> IF t.threw THEN "TypeError" ELSE "",
                ret |-> t.ref, bundle |-> NoBundle])
  /\ UNCHANGED <<shot, orchVars>>

CallPrepareLabData ==
  /\ Len(calls) < MaxCalls
  /\ \E a \in Roots, isString \in BOOLEAN :
       LET p == prepareLabData(heap, IF isString THEN JSONStringify(heap[a]) ELSE a,
                               isString)
       IN /\ heap' = p.heap
          /\ calls' = Append(calls,
               [fn |-> "prepareLabData", arg |-> a, isString |-> isString,
                threw |-> p.threw, error |-> p.error,
                ret |-> p.report, bundle |-> p.bundle])
  /\ UNCHANGED <<shot, orchVars>>

\* The host page calls the installFeatures of a bundle it was given.
CallInstallFeatures ==
  /\ Len(calls) < MaxCalls
  /\ \E i \in {j \in DOMAIN calls : calls[j].fn = "prepareLabData" /\ ~calls[j].threw},
        hasMetrics \in BOOLEAN, hasContainer \in BOOLEAN :
       LET f == installFeatures(heap, calls[i].bundle, ReportEl(hasMetrics),
                                Document(hasContainer), Len(calls) + 1)
       IN calls' = Append(calls,
            [fn |-> "installFeatures", arg |-> i, isString |-> FALSE,
             threw |-> f.threw, error |-> f.error, ret |-> 0, bundle |-> NoBundle,
             reportEl |-> ReportEl(hasMetrics), document |-> Document(hasContainer),
             effects |-> f.effects])
  /\ UNCHANGED <<heap, shot, orchVars>>

NextLhr == CallTweakLhrForPsi \/ CallPrepareLabData \/ CallInstallFeatures

SpecLhr == InitLhr /\ [][NextLhr]_vars

----------------------------------------------------------------------------
(* SpecShot: _getFinalScreenshot applied to a performance category.        *)

InitShot ==
  /\ heap = <<>>
  /\ calls = <<>>
  /\ OrchIdle
  /\ \E c \in ShotInputs : shot = [arg |-> c, done |-> FALSE, ret |-> Null]

CallGetFinalScreenshot ==
  /\ ~shot.done
  /\ shot' = [shot EXCEPT !.done = TRUE, !.ret = _getFinalScreenshot(shot.arg)]
  /\ UNCHANGED <<heap, calls, orchVars>>

NextShot == CallGetFinalScreenshot

SpecShot == InitShot /\ [][NextShot]_vars

----------------------------------------------------------------------------
(* SpecOrch: the orchestrator (the async function of lines 24-57), run     *)
(* once and then again over the file system the first run left.            *)

MaxRuns == 2     \* runs of the orchestrator in one behaviour

BaseResults ==
  {Result("en-US",
          [NoCategories EXCEPT
             !["performance"] =
                Category("performance",
                         RefsOf(<<"first-contentful-paint", "performance-budget",
                                  "final-screenshot">>)),
             !["seo"] = SeoCategory],
          [BaseAudits EXCEPT
             !["performance-budget"] = Audit(Null, "notApplicable", Undefined)],
          DefaultGroups),
   Result("en-US",
          [NoCategories EXCEPT
             !["performance"] =
                Category("performance", RefsOf(<<"first-contentful-paint">>))],
          BaseAudits, DefaultGroups),
   Result("en-US", [NoCategories EXCEPT !["seo"] = SeoCategory], BaseAudits,
          DefaultGroups)}

\* What the audit-only run gives for the empty artifacts: every audit in error.
ErrorResult(fontDisplay) ==
  Result("en-US",
         [NoCategories EXCEPT
            !["performance"] =
               Category("performance", RefsOf(<<"offscreen-images", "font-display">>))],
         [NoAudits EXCEPT
            !["first-contentful-paint"] = ErrorAudit,
            !["font-display"] = fontDisplay,
            !["offscreen-images"] = ErrorAudit,
            !["apple-touch-icon"] = ErrorAudit],
         DefaultGroups)

ExecutorOutcomes ==
  {[kind |-> "throws", lhr |-> Undefined],
   [kind |-> "nothing", lhr |-> Undefined],
   [kind |-> "result", lhr |-> ErrorResult(ErrorAudit)],
   [kind |-> "result",
    lhr |-> ErrorResult(Audit(Num(0), "binary", DebugDetails))]}

StaleHtml ==
  [template |-> "report", rootClass |-> "lh-root",
   json |-> JSONStringify(Result("stale", NoCategories, NoAudits, Undefined))]

\* The file system before the first run: empty, or what an earlier build left.
InitialFileSystems ==
  {[files |-> NoFiles, dirs |-> {}],
   [files |-> (Filepath("", "english") :> StaleHtml) @@
              ((TMP \o <<"old.json">>) :> StaleHtml),
    dirs |-> {DIST, DIST \o <<"english">>, TMP}]}

InitOrch ==
  /\ calls = <<>>
  /\ shot = NoShot
  /\ \E base \in BaseResults, executor \in ExecutorOutcomes :
       /\ env = [base |-> base, executor |-> executor]
       /\ heap = <<base>>
  /\ \E fs \in InitialFileSystems : files = fs.files /\ dirs = fs.dirs
  /\ pc = "start"
  /\ run = 1
  /\ log = <<>>
  /\ errorLhr = 0
  /\ filenameToLhr = <<>>
  /\ idx = 0
  /\ failedIn = ""
  /\ firstRun = Undefined

\* A mutant of Fail: the error is noted and the run goes on.
FailSuppressed(where) ==
  /\ pc' = pc
  /\ failedIn' = where

\* An error thrown and caught by nothing: the async function ends rejected.
Fail(where) ==
  /\ pc' = "failed"
  /\ failedIn' = where

\* Lines 25-26 and 115-144: addPluginCategory(lhr), then generateErrorLHR up
\* to its await: the scratch directory, the artifacts file, the executor called.
Start ==
  /\ pc = "start"
  /\ heap' = addPluginCategory(heap, lhr)
  /\ dirs' = mkdirSync(dirs, TMP)
  /\ files' = writeFileSync(files, TMP \o <<"artifacts.json">>, artifactsJson)
  /\ pc' = "awaitExecutor"
  /\ UNCHANGED <<calls, shot, env, run, log, errorLhr, filenameToLhr, idx,
                 failedIn, firstRun>>

\* fs.mkdirSync(TMP) or fs.writeFileSync of the artifacts throws.
StartFails ==
  /\ pc = "start"
  /\ heap' = addPluginCategory(heap, lhr)
  /\ \E stage \in {"scratch-mkdirSync", "scratch-writeFileSync"} :
       /\ dirs' = IF stage = "scratch-writeFileSync" THEN mkdirSync(dirs, TMP) ELSE dirs
       /\ Fail(stage)
  /\ UNCHANGED <<calls, shot, env, run, files, log, errorLhr, filenameToLhr, idx,
                 firstRun>>

\* Line 144: `await lighthouse(...)` throws, and generateErrorLHR with it.
GenerateErrorLHRExecutorThrows ==
  /\ pc = "awaitExecutor"
  /\ env.executor.kind = "throws"
  /\ Fail("lighthouse")
  /\ UNCHANGED <<heap, calls, shot, env, run, files, dirs, log, errorLhr,
                 filenameToLhr, idx, firstRun>>

\* Line 146: the executor returned nothing and generateErrorLHR throws.
GenerateErrorLHRNoResult ==
  /\ pc = "awaitExecutor"
  /\ env.executor.kind = "nothing"
  /\ Fail("no-result")
  /\ UNCHANGED <<heap, calls, shot, env, run, files, dirs, log, errorLhr,
                 filenameToLhr, idx, firstRun>>

\* Lines 147-172: the executor's Result edited, the scratch directory
\* removed, the Result returned.
GenerateErrorLHRReturns ==
  /\ pc = "awaitExecutor"
  /\ env.executor.kind = "result"
  /\ heap' = AddAuditWarnings(Append(heap, env.executor.lhr), Len(heap) + 1)
  /\ errorLhr' = Len(heap) + 1
  /\ dirs' = rmdirSyncDirs(dirs, TMP)
  /\ files' = rmdirSyncFiles(files, TMP)
  /\ pc' = "matrix"
  /\ UNCHANGED <<calls, shot, env, run, log, filenameToLhr, idx, failedIn, firstRun>>

\* Lines 28-35: filenameToLhr.
BuildMatrix ==
  /\ pc = "matrix"
  /\ LET es == swapLocale(heap, lhr, "es")
         ar == swapLocale(es.heap, lhr, "ar")
         xl == swapLocale(ar.heap, lhr, "en-XL")
         solo == tweakLhrForPsi(xl.heap, lhr)
         refs == <<lhr, es.ref, ar.ref, xl.ref, errorLhr, solo.ref>>
     IN /\ heap' = solo.heap
        /\ IF solo.threw
             THEN Fail("tweakLhrForPsi") /\ UNCHANGED filenameToLhr
             ELSE /\ filenameToLhr' =
                       [i \in DOMAIN Filenames |-> [name |-> Filenames[i], lhr |-> refs[i]]]
                  /\ pc' = "loop"
                  /\ UNCHANGED failedIn
  /\ UNCHANGED <<calls, shot, env, run, files, dirs, log, errorLhr, idx, firstRun>>

\* A swapLocale call throws.
BuildMatrixFails ==
  /\ pc = "matrix"
  /\ Fail("swapLocale")
  /\ UNCHANGED <<heap, calls, shot, env, run, files, dirs, log, errorLhr,
                 filenameToLhr, idx, firstRun>>

\* The (name, variant) pair the write loop is at: the entries in order, and
\* for each the variants in order.
EntryAt(i) == filenameToLhr[(i \div Len(Variants)) + 1]
VariantAt(i) == Variants[(i % Len(Variants)) + 1]

\* Lines 40-42: which generator makes the html of a variant.
HtmlSource(h, entry, variant) ==
  IF Includes(variant, "psi")
    THEN generatePsiReportHtml(h)
    ELSE [heap |-> h, threw |-> FALSE, html |-> generateReportHtml(h[entry.lhr])]

\* Lines 44-49: the DevTools variant's root class.
HtmlFor(html, variant) ==
  IF Includes(variant, "cdt") THEN ReplaceRootClass(html) ELSE html

\* Lines 39-55, one turn of the loops: the html made and written.
WriteReport ==
  /\ pc = "loop"
  /\ LET entry == EntryAt(idx)
         variant == VariantAt(idx)
         src == HtmlSource(heap, entry, variant)
         filepath == Filepath(variant, entry.name)
     IN /\ heap' = src.heap
        /\ IF src.threw
             THEN Fail("render") /\ UNCHANGED <<dirs, files, log, idx>>
             ELSE /\ dirs' = mkdirSync(dirs, Dirname(filepath))
                  /\ files' = writeFileSync(files, filepath, HtmlFor(src.html, variant))
                  /\ log' = Append(log, filepath)
                  /\ idx' = idx + 1
                  /\ pc' = IF idx + 1 = Len(filenameToLhr) * Len(Variants)
                             THEN "done" ELSE "loop"
                  /\ UNCHANGED failedIn
  /\ UNCHANGED <<calls, shot, env, run, errorLhr, filenameToLhr, firstRun>>

\* The renderer, fs.mkdirSync or fs.writeFileSync throws in a turn of the loop.
WriteReportFails ==
  /\ pc = "loop"
  /\ \E stage \in {"render", "mkdirSync", "writeFileSync"} :
       /\ dirs' = IF stage = "writeFileSync"
                    THEN mkdirSync(dirs, Dirname(Filepath(VariantAt(idx), EntryAt(idx).name)))
                    ELSE dirs
       /\ Fail(stage)
  /\ UNCHANGED <<heap, calls, shot, env, run, files, log, errorLhr, filenameToLhr,
                 idx, firstRun>>

\* The build is run again: a new process over the same file system.
RunAgain ==
  /\ pc = "done"
  /\ run < MaxRuns
  /\ run' = run + 1
  /\ firstRun' = IF run = 1 THEN [files |-> files, dirs |-> dirs] ELSE firstRun
  /\ heap' = <<env.base>>
  /\ pc' = "start"
  /\ log' = <<>>
  /\ errorLhr' = 0
  /\ filenameToLhr' = <<>>
  /\ idx' = 0
  /\ UNCHANGED <<calls, shot, env, files, dirs, failedIn>>

NextOrch ==
  \/ Start
  \/ StartFails
  \/ GenerateErrorLHRExecutorThrows
  \/ GenerateErrorLHRNoResult
  \/ GenerateErrorLHRReturns
  \/ BuildMatrix
  \/ BuildMatrixFails
  \/ WriteReport
  \/ WriteReportFails
  \/ RunAgain

SpecOrch == InitOrch /\ [][NextOrch]_vars

----------------------------------------------------------------------------
(* Properties of the orchestrator and of generateErrorLHR, under SpecOrch. *)

Range(f) == {f[k] : k \in DOMAIN f}

\* The k-th path of the fixed enumeration: names in declaration order, and
\* for each name the variants plain, devtools, psi.
OrderedPath(k) ==
  Filepath(Variants[((k - 1) % 3) + 1], Filenames[((k - 1) \div 3) + 1])

\* C1: once generateErrorLHR has created the scratch directory, it is gone
\* when the builder returns, when the executor's error propagates out of the
\* builder, and when the builder throws for want of a result.
C1_ScratchRemovedOnExit ==
  (\/ pc = "matrix"
   \/ pc = "failed" /\ failedIn \in {"lighthouse", "no-result"}) =>
    /\ TMP \notin dirs
    /\ \A p \in DOMAIN files : ~IsUnder(p, TMP)

\* C3: the psi variant written for a named Result embeds the narrowing of
\* that same named Result.
C3_PsiEmbedsOwnResult ==
  \A k \in 1..Len(log) :
    Includes(VariantAt(k - 1), "psi") =>
      LET t == tweakLhrForPsi(heap, EntryAt(k - 1).lhr)
      IN files[log[k]].json = sanitizeJson(t.heap[t.ref])

\* C7: a run that completes has written 18 files, one for each of the 6 names
\* and 3 variants, at pairwise distinct paths <prefix><name>/index.html under
\* the distribution root, the plain variant's prefix being empty.
C7_EighteenDistinctFiles ==
  pc = "done" =>
    /\ Len(log) = 18
    /\ Cardinality(Range(log)) = 18
    /\ Range(log) \subseteq DOMAIN files
    /\ Range(log) =
         {DIST \o <<prefix \o name, "index.html">> :
            prefix \in Range(Variants), name \in Range(Filenames)}
    /\ \A name \in Range(Filenames) :
         DIST \o <<name, "index.html">> \in Range(log)
    /\ \A k \in 1..18, m \in 1..18 : k # m => log[k] # log[m]

C7_Witness == pc = "done" /\ run = 1 /\ Len(log) = 18

\* What the file system holds that this first run wrote as a report.
ReportsWritten ==
  {p \in DOMAIN files : ~IsUnder(p, TMP) /\ files[p] # StaleHtml}

\* C8: files are written in the fixed enumeration order; once a call has
\* thrown, no file is written any more in that run, so the files of the run
\* are those of the pairs before the failing one; and when the error-path
\* Result or a locale variant cannot be built, no file is written at all.
C8_FailFast ==
  /\ [](/\ \A k \in 1..Len(log) : log[k] = OrderedPath(k)
        /\ Len(log) = idx
        /\ run = 1 => ReportsWritten = Range(log)
        /\ failedIn \in {"scratch-mkdirSync", "scratch-writeFileSync", "lighthouse",
                         "no-result", "swapLocale", "tweakLhrForPsi"} =>
             log = <<>>)
  /\ [][failedIn # "" => (files' = files /\ dirs' = dirs /\ log' = log)]_vars

\* A write failed in the middle of the loop, after some files were written.
C8_Witness ==
  /\ pc = "failed" /\ failedIn = "writeFileSync"
  /\ Len(log) = 7
  /\ OrderedPath(8) \notin DOMAIN files

\* C9: a second run over the file system a first completed run left writes
\* every file with the content it had and leaves the same file system, with
\* no scratch directory.
C9_OrchestratorIdempotent ==
  run >= 2 =>
    /\ \A k \in 1..Len(log) : files[log[k]] = firstRun.files[log[k]]
    /\ pc = "done" =>
         /\ files = firstRun.files
         /\ dirs = firstRun.dirs
         /\ TMP \notin dirs
         /\ \A p \in DOMAIN files : ~IsUnder(p, TMP)

C9_Witness == run = 2 /\ pc = "done" /\ Len(log) = 18

----------------------------------------------------------------------------
(* Properties of tweakLhrForPsi and prepareLabData, under SpecLhr.         *)

TweakCalls == {i \in DOMAIN calls : calls[i].fn = "tweakLhrForPsi"}
LabCalls == {i \in DOMAIN calls : calls[i].fn = "prepareLabData"}

HasPerformance(r) == Truthy(Get(r.categories, "performance"))

PerfRefs(r) == r.categories["performance"].auditRefs

\* C2: tweakLhrForPsi is total: no call of it throws, and for a Result
\* without a performance category the returned Result's categories map
\* `performance` to undefined.
C2_TrimIsTotal ==
  \A i \in TweakCalls :
    /\ ~calls[i].threw
    /\ ~HasPerformance(heap[calls[i].arg]) =>
         /\ Keys(heap[calls[i].ret].categories) = {"performance"}
         /\ heap[calls[i].ret].categories["performance"] = Undefined

\* The s-th smallest element of a set of indices.
NthOf(S, n) == CHOOSE k \in S : Cardinality({j \in S : j <= k}) = n

\* C4: for a Result with a performance category the trim returns a Result
\* whose only category key is `performance`, whose audits have no
\* `performance-budget` key, and whose performance auditRefs are the input's
\* without the entries whose id ends in `-budget`, in the original order.
C4_TrimOutput ==
  \A i \in TweakCalls :
    HasPerformance(heap[calls[i].arg]) =>
      /\ ~calls[i].threw
      /\ LET in == heap[calls[i].arg]
             out == heap[calls[i].ret]
             kept == {k \in DOMAIN PerfRefs(in) :
                        ~EndsWith(PerfRefs(in)[k].id, "-budget")}
         IN /\ Keys(out.categories) = {"performance"}
            /\ "performance-budget" \notin Keys(out.audits)
            /\ Len(PerfRefs(out)) = Cardinality(kept)
            /\ \A n \in 1..Cardinality(kept) :
                 PerfRefs(out)[n] = PerfRefs(in)[NthOf(kept, n)]

\* A trim that had categories, a budget audit and budget references to drop.
C4_Witness ==
  \E i \in TweakCalls :
    /\ ~calls[i].threw
    /\ Keys(heap[calls[i].arg].categories) = {"performance", "seo"}
    /\ "performance-budget" \in Keys(heap[calls[i].arg].audits)
    /\ Len(PerfRefs(heap[calls[i].arg])) = 2
    /\ Len(PerfRefs(heap[calls[i].ret])) = 1

\* C5: neither tweakLhrForPsi nor prepareLabData changes an object that
\* existed before the call: the Result given keeps its categories, audits,
\* auditRefs and categoryGroups, every edit goes to the copy.
C5_InputNotMutated ==
  [][\A a \in DOMAIN heap : heap'[a] = heap[a]]_vars

\* Both operations have run on the same Result, and each edited its copy.
C5_Witness ==
  /\ \E i \in TweakCalls :
       /\ ~calls[i].threw /\ calls[i].arg = 1
       /\ heap[calls[i].ret].categories # heap[1].categories
       /\ heap[calls[i].ret].audits # heap[1].audits
       /\ PerfRefs(heap[calls[i].ret]) # PerfRefs(heap[1])
  /\ \E i \in LabCalls :
       /\ ~calls[i].threw /\ calls[i].arg = 1 /\ ~calls[i].isString
       /\ heap[calls[i].ret].categoryGroups["metrics"].title = labDataTitle
       /\ heap[1].categoryGroups["metrics"].title # labDataTitle

\* C6: trimming the Result a trim returned gives the same category keys,
\* the same audits keys and the same performance auditRefs.
C6_TrimIdempotent ==
  \A i \in TweakCalls, j \in TweakCalls :
    (/\ ~calls[i].threw
     /\ calls[j].arg = calls[i].ret
     /\ HasPerformance(heap[calls[i].arg])) =>
      /\ ~calls[j].threw
      /\ Keys(heap[calls[j].ret].categories) = Keys(heap[calls[i].ret].categories)
      /\ Keys(heap[calls[j].ret].audits) = Keys(heap[calls[i].ret].audits)
      /\ PerfRefs(heap[calls[j].ret]) = PerfRefs(heap[calls[i].ret])

\* A trim of a trim, where the first trim had two budget references to drop.
C6_Witness ==
  \E i \in TweakCalls, j \in TweakCalls :
    /\ ~calls[i].threw /\ ~calls[j].threw
    /\ calls[j].arg = calls[i].ret
    /\ Len(PerfRefs(heap[calls[i].arg])) = 2
    /\ PerfRefs(heap[calls[i].ret]) = <<>>

\* C11: prepareLabData throws and returns no bundle when the prepared
\* Result has no performance category or no categoryGroups; a Result that has
\* both (and the metrics group) gets its bundle whether or not it has a
\* full-page-screenshot audit, a final-screenshot reference or a
\* script-treemap-data audit, with finalScreenshotDataUri null when there is
\* no final-screenshot reference and no screenshot captured when there is no
\* full-page-screenshot audit.
C11_LabDataFailures ==
  \A i \in LabCalls :
    LET in == heap[calls[i].arg]
        hasFinalRef ==
          \E k \in DOMAIN PerfRefs(in) : PerfRefs(in)[k].id = "final-screenshot"
    IN /\ (~HasPerformance(in) \/ ~Truthy(in.categoryGroups)) =>
            /\ calls[i].threw
            /\ calls[i].bundle = NoBundle
            /\ calls[i].error \in {"No performance category. Can't make lab data section",
                                   "No category groups found."}
       /\ (/\ HasPerformance(in)
           /\ Truthy(in.categoryGroups)
           /\ Truthy(Get(in.categoryGroups, "metrics"))) =>
            /\ ~calls[i].threw
            /\ calls[i].bundle # NoBundle
            /\ ~hasFinalRef => calls[i].bundle.finalScreenshotDataUri = Null
            /\ ~Truthy(Get(in.audits, "full-page-screenshot")) =>
                 calls[i].bundle.fullPageScreenshot = Undefined

\* A bundle made for a Result with none of the three optional audits.
C11_Witness ==
  \E i \in LabCalls :
    /\ ~calls[i].threw
    /\ Keys(heap[calls[i].arg].audits) \cap
         {"full-page-screenshot", "script-treemap-data", "final-screenshot"} = {}
    /\ calls[i].bundle.finalScreenshotDataUri = Null
    /\ calls[i].bundle.fullPageScreenshot = Undefined

----------------------------------------------------------------------------
(* Properties of generateErrorLHR, under SpecOrch.                         *)

\* C14: when the audit-only run returns a result, the Result generateErrorLHR
\* returns has offscreen-images and apple-touch-icon each with score 1,
\* scoreDisplayMode binary, errorMessage undefined and one warning;
\* font-display with exactly the two fixed warnings and the score,
\* scoreDisplayMode and errorMessage the run gave it; and every other audit,
\* and everything outside the audits, as the run returned it.
C14_ErrorLhrAudits ==
  errorLhr # 0 =>
    LET out == heap[errorLhr]
        in == env.executor.lhr
    IN /\ env.executor.kind = "result"
       /\ \A k \in {"offscreen-images", "apple-touch-icon"} :
            /\ out.audits[k].score = Num(100)
            /\ out.audits[k].scoreDisplayMode = "binary"
            /\ out.audits[k].errorMessage = Undefined
            /\ Len(out.audits[k].warnings) = 1
            /\ out.audits[k].details = in.audits[k].details
       /\ out.audits["font-display"].warnings = fontDisplayWarnings
       /\ Len(fontDisplayWarnings) = 2
       /\ fontDisplayWarnings[1] # fontDisplayWarnings[2]
       /\ out.audits["font-display"].score = in.audits["font-display"].score
       /\ out.audits["font-display"].scoreDisplayMode =
            in.audits["font-display"].scoreDisplayMode
       /\ out.audits["font-display"].errorMessage =
            in.audits["font-display"].errorMessage
       /\ out.audits["font-display"].details = in.audits["font-display"].details
       /\ \A k \in AuditKeys \ {"offscreen-images", "apple-touch-icon", "font-display"} :
            out.audits[k] = in.audits[k]
       /\ out.categories = in.categories
       /\ out.categoryGroups = in.categoryGroups

\* generateErrorLHR has returned for a run whose audits were all in error,
\* one untouched audit among them.
C14_Witness ==
  /\ errorLhr # 0
  /\ env.executor.lhr.audits["offscreen-images"] = ErrorAudit
  /\ env.executor.lhr.audits["font-display"] = ErrorAudit
  /\ heap[errorLhr].audits["first-contentful-paint"] = ErrorAudit
  /\ heap[errorLhr].audits["offscreen-images"] # ErrorAudit

----------------------------------------------------------------------------
(* Properties of installFeatures, under SpecLhr.                           *)

InstallCalls == {i \in DOMAIN calls : calls[i].fn = "installFeatures"}

\* The bundle an installFeatures call belongs to, and the Result that was
\* given to the prepareLabData call that made it.
BundleOf(i) == calls[calls[i].arg].bundle
Captured(i) == Truthy(BundleOf(i).fullPageScreenshot)

\* What a call did to the page, lookups left out.
IsLookup(e) == e.effect = "querySelector"
PageEffects(i) ==
  LET effs == calls[i].effects
      F[k \in 0..Len(effs)] ==
        IF k = 0 THEN <<>>
        ELSE IF IsLookup(effs[k]) THEN F[k - 1] ELSE Append(F[k - 1], effs[k])
  IN F[Len(effs)]

EffectsOfKind(i, kind) ==
  {k \in DOMAIN calls[i].effects : calls[i].effects[k].effect = kind}

\* C12: with a captured full-page screenshot and the overlay container
\* present, installFeatures installs the screenshot on the given container,
\* appends a fresh element to the overlay container, installs the overlay
\* feature on that element and the container, installs the screenshot on the
\* element, and only then attaches the size-breakdown control, if it does:
\* the screenshot is installed exactly twice, on two different elements.
C12_InstallOrder ==
  \A i \in InstallCalls :
    (Captured(i) /\ calls[i].document.hasContainer) =>
      LET eff == PageEffects(i)
      IN /\ ~calls[i].threw
         /\ Len(eff) \in {4, 5}
         /\ eff[1].effect = "installFullPageScreenshot"
         /\ eff[1].el = calls[i].reportEl
         /\ eff[2].effect = "append"
         /\ eff[2].parent = ".element-screenshots-container"
         /\ \A j \in InstallCalls : \A k \in DOMAIN calls[j].effects :
              (j < i /\ calls[j].effects[k].effect = "append") =>
                calls[j].effects[k].el # eff[2].el
         /\ eff[3].effect = "installOverlayFeature"
         /\ eff[3].overlayContainerEl = eff[2].el
         /\ eff[3].reportEl = calls[i].reportEl
         /\ eff[4].effect = "installFullPageScreenshot"
         /\ eff[4].el = eff[2].el
         /\ eff[4].el # eff[1].el
         /\ Len(eff) = 5 => eff[5].effect = "addButton"
         /\ Cardinality(EffectsOfKind(i, "installFullPageScreenshot")) = 2

\* All five steps happened in one call.
C12_Witness ==
  \E i \in InstallCalls :
    /\ Captured(i) /\ calls[i].document.hasContainer
    /\ Len(PageEffects(i)) = 5

\* The conditions of the size-breakdown control: the Result given to
\* prepareLabData has a script-treemap-data audit with details, and the
\* container has a metrics-button area.
TreemapWanted(i) ==
  /\ ShowTreemapApp(heap[BundleOf(i).lhResult].audits)
  /\ calls[i].reportEl.hasMetrics

\* C13 as stated: the control is attached exactly when its conditions hold,
\* and it opens the view over the Result given, not the prepared copy.
C13_ButtonIffConditions ==
  \A i \in InstallCalls :
    /\ (EffectsOfKind(i, "addButton") # {}) <=> TreemapWanted(i)
    /\ \A k \in EffectsOfKind(i, "addButton") :
         calls[i].effects[k].onClick = BundleOf(i).lhResult

\* C13, amended: the control is attached exactly when its conditions hold
\* and installFeatures has not thrown for a missing overlay container; it
\* opens the view over the Result given to prepareLabData (the object itself,
\* or the one parsed from the string), never over the prepared copy whose
\* metrics group was overwritten.
C13_ButtonIffConditionsAndNoThrow ==
  \A i \in InstallCalls :
    /\ (EffectsOfKind(i, "addButton") # {}) <=>
         (TreemapWanted(i) /\ ~calls[i].threw)
    /\ calls[i].threw <=> (Captured(i) /\ ~calls[i].document.hasContainer)
    /\ \A k \in EffectsOfKind(i, "addButton") :
         LET target == calls[i].effects[k].onClick
             lab == calls[calls[i].arg]
         IN /\ target # lab.ret
            /\ ~lab.isString => target = lab.arg
            /\ lab.isString =>
                 /\ target \notin Roots
                 /\ heap[target] = JSONRoundTrip(heap[lab.arg])
            /\ heap[lab.ret].categoryGroups["metrics"].title = labDataTitle
            /\ heap[target].categoryGroups["metrics"].title # labDataTitle

\* The control attached in a call that also installed the overlay.
C13_Witness ==
  \E i \in InstallCalls :
    /\ EffectsOfKind(i, "addButton") # {}
    /\ Captured(i)
    /\ ~calls[calls[i].arg].isString

\* C15: installFeatures throws for a missing overlay container exactly when
\* a full-page screenshot was captured: without one it never looks the
\* container up and goes on to the size-breakdown step; with one and no
\* container it throws after installing the screenshot on the given
\* container, having appended no element, installed no overlay feature and
\* attached no control.
C15_ThrowsIffCaptured ==
  \A i \in InstallCalls :
    LET effs == calls[i].effects
        lookups == {k \in DOMAIN effs :
                      IsLookup(effs[k]) /\ effs[k].el = calls[i].document}
    IN /\ calls[i].threw <=> (Captured(i) /\ ~calls[i].document.hasContainer)
       /\ ~Captured(i) =>
            /\ lookups = {}
            /\ effs[1] = QuerySelector(calls[i].reportEl, ".lh-audit-group--metrics")
            /\ TreemapWanted(i) => EffectsOfKind(i, "addButton") # {}
       /\ (Captured(i) /\ ~calls[i].document.hasContainer) =>
            /\ calls[i].error = "missing .element-screenshots-container"
            /\ effs[1].effect = "installFullPageScreenshot"
            /\ effs[1].el = calls[i].reportEl
            /\ \A k \in lookups : k > 1
            /\ EffectsOfKind(i, "append") = {}
            /\ EffectsOfKind(i, "installOverlayFeature") = {}
            /\ EffectsOfKind(i, "addButton") = {}
            /\ Cardinality(EffectsOfKind(i, "installFullPageScreenshot")) = 1

\* The throw, in a call that would otherwise have attached the control.
C15_Witness ==
  \E i \in InstallCalls :
    /\ calls[i].threw
    /\ TreemapWanted(i)

----------------------------------------------------------------------------
(* Properties of _getFinalScreenshot, under SpecShot.                      *)

\* C10: _getFinalScreenshot returns null when the category has no
\* `final-screenshot` reference, or that reference has no result, or the
\* result's scoreDisplayMode is `error`, or its details are missing or not of
\* type `screenshot`; otherwise it returns the `data` of those details.
C10_FinalScreenshot ==
  shot.done =>
    LET refs == shot.arg.auditRefs
        first == {i \in DOMAIN refs :
                    /\ refs[i].id = "final-screenshot"
                    /\ \A j \in 1..(i - 1) : refs[j].id # "final-screenshot"}
        NullCase(ref) ==
          \/ ref.result = Undefined
          \/ ref.result.scoreDisplayMode = "error"
          \/ ref.result.details = Undefined
          \/ ref.result.details.type # "screenshot"
    IN /\ first = {} => shot.ret = Null
       /\ \A i \in first :
            IF NullCase(refs[i]) THEN shot.ret = Null
            ELSE shot.ret = refs[i].result.details.data

\* The spec's example: scoreDisplayMode binary, details screenshot, data 'abc'.
C10_Witness ==
  /\ shot.done
  /\ shot.ret = Str("abc")
  /\ \E i \in DOMAIN shot.arg.auditRefs :
       /\ shot.arg.auditRefs[i].id = "final-screenshot"
       /\ shot.arg.auditRefs[i].result.scoreDisplayMode = "binary"

====
